---- MODULE Spec2Model ----
(***************************************************************************)
(* Session-scoped document Q&A service: the three HTTP variants api.py,    *)
(* enhanced_api.py and simple_api.py.  One behaviour is one deployment of  *)
(* one variant: its metadata table (active_sessions / sessions), the       *)
(* persisted indexes under sessions/<id>, the temporary upload files and   *)
(* the requests served so far.  Handlers run on one event loop: a handler  *)
(* is atomic between its suspension points, and the only suspension point  *)
(* of the handlers is `await file.read()` in the upload handlers.          *)
(*                                                                         *)
(* Numbers with a fraction (confidence scores) are kept in hundredths:     *)
(* 0.8 is 80, 1.5 is 150.                                                  *)
(***************************************************************************)
EXTENDS Integers, Sequences, FiniteSets, TLC

\* Number of session ids uuid.uuid4() hands out in one behaviour.
MaxSessions == 2

Variants == {"api", "enhanced", "simple"}

\* Ids uuid4 generates are 1..MaxSessions; 0 is an id a client made up.
SessionIds == 1..MaxSessions
RequestIds == 0..MaxSessions

(***************************************************************************)
(* Python values, as far as the handlers look at them.                     *)
(***************************************************************************)
PyVal(t, n, s, l) == [type |-> t, num |-> n, str |-> s, items |-> l]
PyStr(s) == PyVal("str", 0, s, <<>>)
PyFloat(n) == PyVal("float", n, "", <<>>)
PyInt(n) == PyVal("int", n, "", <<>>)
PyList(l) == PyVal("list", 0, "", l)
PyNone == PyVal("NoneType", 0, "", <<>>)
\* A key that a dict does not hold.
Missing == PyVal("missing", 0, "", <<>>)

Keys == {"answer", "reason", "clause", "confidence_score", "document_references"}

\* A JSON object: every key of Keys it does not hold is Missing.
PyDict(a, r, c, conf, refs) ==
    [type |-> "dict",
     fields |-> [k \in Keys |->
        CASE k = "answer" -> a
          [] k = "reason" -> r
          [] k = "clause" -> c
          [] k = "confidence_score" -> conf
          [] OTHER -> refs]]
\* A JSON value that is not an object.
PyScalar(v) == [type |-> v.type, fields |-> [k \in Keys |-> Missing]]

\* dict.get(key, default)
dict_get(d, k, default) == IF d.fields[k].type = "missing" THEN default ELSE d.fields[k]

(***************************************************************************)
(* Texts the answer model returns.  A text is kept as what json.loads      *)
(* makes of it: wellformed texts carry the value they denote.              *)
(***************************************************************************)
Text(raw, ok, v) == [raw |-> raw, wellformed |-> ok, value |-> v]
NoValue == PyScalar(Missing)

Clause1 == PyStr("Refer to page 1")
Refs1 == PyList(<<"PDF_Page_1">>)

OutPlain == Text("not json at all", FALSE, NoValue)
OutTruncated == Text("{\"answer\": \"Yes\", ", FALSE, NoValue)
OutNumber == Text("42", TRUE, PyScalar(PyInt(42)))
OutString == Text("\"Yes\"", TRUE, PyScalar(PyStr("Yes")))
OutList == Text("[\"Yes\"]", TRUE, PyScalar(PyList(<<"Yes">>)))
OutNull == Text("null", TRUE, PyScalar(PyNone))
OutFull == Text("{answer, reason, clause, confidence_score: 0.9, document_references}", TRUE,
                PyDict(PyStr("Yes"), PyStr(""), Clause1, PyFloat(90), Refs1))
OutNoConf == Text("{answer, reason, clause}", TRUE,
                  PyDict(PyStr("No"), PyStr("It is not covered under the policy"), Clause1,
                         Missing, Missing))
OutConfHigh == Text("{answer, confidence_score: 1.5}", TRUE,
                    PyDict(PyStr("Yes"), Missing, Missing, PyFloat(150), Missing))
OutConfNegative == Text("{answer, confidence_score: -0.2}", TRUE,
                        PyDict(PyStr("Yes"), Missing, Missing, PyFloat(-20), Missing))
OutConfWord == Text("{answer, confidence_score: \"high\"}", TRUE,
                    PyDict(PyStr("Yes"), Missing, Missing, PyStr("high"), Missing))
OutConfDigits == Text("{answer, confidence_score: \"0.7\"}", TRUE,
                      PyDict(PyStr("Yes"), Missing, Missing, PyStr("0.7"), Missing))
OutConfNull == Text("{answer, confidence_score: null}", TRUE,
                    PyDict(PyStr("Yes"), Missing, Missing, PyNone, Missing))
OutConfList == Text("{answer, confidence_score: [0.9]}", TRUE,
                    PyDict(PyStr("Yes"), Missing, Missing, PyList(<<"0.9">>), Missing))
OutAnswerNull == Text("{answer: null, reason, clause}", TRUE,
                      PyDict(PyNone, PyStr(""), Clause1, Missing, Missing))

ModelOutputs ==
    {OutPlain, OutTruncated, OutNumber, OutString, OutList, OutNull, OutFull, OutNoConf,
     OutConfHigh, OutConfNegative, OutConfWord, OutConfDigits, OutConfNull, OutConfList,
     OutAnswerNull}

\* json.loads: a value, or JSONDecodeError.
json_loads(text) ==
    IF text.wellformed
    THEN [raised |-> "", value |-> text.value]
    ELSE [raised |-> "JSONDecodeError", value |-> NoValue]

\* float(x): numbers convert, a str converts when it spells a number,
\* other types raise TypeError and other strs ValueError.
float(v) ==
    CASE v.type \in {"float", "int"} -> [raised |-> "", value |-> PyFloat(v.num)]
      [] v.type = "str" /\ v.str = "0.7" -> [raised |-> "", value |-> PyFloat(70)]
      [] v.type = "str" -> [raised |-> "ValueError", value |-> Missing]
      [] OTHER -> [raised |-> "TypeError", value |-> Missing]

(***************************************************************************)
(* Uploaded documents.  A document is its file name, its extension, whether*)
(* the format parser can read it, and its text blocks (PDF pages, Word     *)
(* paragraphs, the body of an e-mail or text file).  A block of text is    *)
(* "blank" (whitespace only), "short" (the splitter keeps it in one chunk) *)
(* or "long" (the splitter cuts it in two).                                *)
(***************************************************************************)
Doc(name, ext, readable, blocks) ==
    [filename |-> name, ext |-> ext, readable |-> readable, blocks |-> blocks]

Documents ==
    {Doc("policy.pdf", "pdf", TRUE, <<"short">>),
     Doc("handbook.pdf", "pdf", TRUE, <<"short", "long", "long", "long">>),
     Doc("scan.pdf", "pdf", TRUE, <<"blank">>),
     Doc("broken.pdf", "pdf", FALSE, <<>>),
     Doc("blank.docx", "docx", TRUE, <<"blank">>),
     Doc("empty.txt", "txt", TRUE, <<>>),
     Doc("tool.exe", "exe", TRUE, <<"short">>)}

Extensions == {d.ext : d \in Documents}

RECURSIVE Flatten(_)
Flatten(ss) == IF ss = <<>> THEN <<>> ELSE Head(ss) \o Flatten(Tail(ss))

\* Number of chunks RecursiveCharacterTextSplitter.split_text makes of a block.
SplitCount(kind) == CASE kind = "blank" -> 0 [] kind = "short" -> 1 [] OTHER -> 2

\* A passage of an index: the block it was cut from, its position among the
\* sub-chunks of that block, and whether its text holds the "[Source: ...]" tag.
Passage(source, part, tagged) == [source |-> source, part |-> part, tagged |-> tagged]

\* api.py get_pdf_text and get_text_chunks: the pages' text joined, then split.
\* simple_api.py extract_text_from_pdf skips falsy pages and turns a reader
\* error into the text "Error reading PDF".
PlainChunks(blocks) ==
    LET pieces == Flatten([i \in 1..Len(blocks) |-> [j \in 1..SplitCount(blocks[i]) |-> i]])
    IN  [j \in 1..Len(pieces) |-> Passage("", j, FALSE)]

get_pdf_text(d) ==
    IF ~d.readable
    THEN [raised |-> "PdfReadError", blank |-> TRUE, chunks |-> <<>>]
    ELSE [raised |-> "",
          blank |-> \A i \in 1..Len(d.blocks) : d.blocks[i] = "blank",
          chunks |-> PlainChunks(d.blocks)]

extract_text_from_pdf(d) ==
    IF ~d.readable
    THEN [raised |-> "", blank |-> FALSE, chunks |-> <<Passage("", 1, FALSE)>>]
    ELSE [raised |-> "",
          blank |-> \A i \in 1..Len(d.blocks) : d.blocks[i] = "blank",
          chunks |-> PlainChunks(d.blocks)]

\* enhanced_api.py DocumentChunk
DocumentChunk(content, source) == [content |-> content, source |-> source]

extract_pdf_text(d) ==
    IF ~d.readable
    THEN [raised |-> "HTTPException", status |-> 400, chunks |-> <<>>]
    ELSE [raised |-> "", status |-> 0,
          chunks |-> Flatten([i \in 1..Len(d.blocks) |->
              IF d.blocks[i] = "blank" THEN <<>>
              ELSE <<DocumentChunk(d.blocks[i], "PDF_Page_" \o ToString(i))>>])]

extract_docx_text(d) ==
    IF ~d.readable
    THEN [raised |-> "HTTPException", status |-> 400, chunks |-> <<>>]
    ELSE [raised |-> "", status |-> 0,
          chunks |-> Flatten([i \in 1..Len(d.blocks) |->
              IF d.blocks[i] = "blank" THEN <<>>
              ELSE <<DocumentChunk(d.blocks[i], "DOCX_Paragraph_" \o ToString(i))>>])]

\* The headers chunk is appended whatever the file holds; the body chunk
\* when the payload is not empty.
extract_email_text(d) ==
    [raised |-> "", status |-> 0,
     chunks |-> <<DocumentChunk("short", "Email_Headers")>> \o
                [i \in 1..Len(d.blocks) |-> DocumentChunk(d.blocks[i], "Email_Body")]]

\* Raises HTTPException(400) for an unsupported extension, for a file the
\* parser cannot read and for a document without chunks.
process_document(d) ==
    LET ex == CASE d.ext = "pdf" -> extract_pdf_text(d)
                [] d.ext \in {"docx", "doc"} -> extract_docx_text(d)
                [] d.ext \in {"eml", "msg", "txt"} -> extract_email_text(d)
                [] OTHER -> [raised |-> "HTTPException", status |-> 400, chunks |-> <<>>]
        doc_type == CASE d.ext = "pdf" -> "PDF"
                      [] d.ext \in {"docx", "doc"} -> "Word Document"
                      [] OTHER -> "Email/Text"
    IN  IF ex.raised # ""
        THEN [failed |-> "extract", status |-> 400, chunks |-> <<>>, doc_type |-> doc_type]
        ELSE IF ex.chunks = <<>>
        THEN [failed |-> "notext", status |-> 400, chunks |-> <<>>, doc_type |-> doc_type]
        ELSE [failed |-> "", status |-> 0, chunks |-> ex.chunks, doc_type |-> doc_type]

\* The tag goes in front of the block's text and the whole is split: the
\* first sub-chunk starts with the tag, a blank body still leaves the tag.
create_enhanced_text_chunks(document_chunks) ==
    Flatten([i \in 1..Len(document_chunks) |->
        LET n == IF SplitCount(document_chunks[i].content) = 0 THEN 1
                 ELSE SplitCount(document_chunks[i].content)
        IN  [j \in 1..n |-> Passage(document_chunks[i].source, j, j = 1)]])

(***************************************************************************)
(* The persisted index of a session, sessions/<id>: absent, complete (all  *)
(* files written, loadable) or partial (the directory is there, the files  *)
(* are not all there).                                                     *)
(***************************************************************************)
Entry(state, passages) == [state |-> state, passages |-> passages]
AbsentEntry == Entry("absent", <<>>)
PartialEntry == Entry("partial", <<>>)

\* Where the index of a session is saved and loaded from.
session_path(v, sid) ==
    IF v = "simple" THEN "sessions/" \o ToString(sid)
    ELSE "sessions/" \o ToString(sid) \o "/faiss_index"

UploadFaults == {"none", "embed", "save"}

\* Mutation of create_vector_store: an index without passages is saved.
create_vector_store_saves_none(text_chunks, fault) ==
    IF fault = "embed"
    THEN [raised |-> "embedding", entry |-> AbsentEntry]
    ELSE IF fault = "save"
    THEN [raised |-> "save", entry |-> PartialEntry]
    ELSE [raised |-> "", entry |-> Entry("complete", <<>>)]

\* Mutation of create_vector_store: the saved index lacks the last chunk.
create_vector_store_drops_chunk(text_chunks, fault) ==
    IF fault = "embed" \/ text_chunks = <<>>
    THEN [raised |-> "embedding", entry |-> AbsentEntry]
    ELSE IF fault = "save"
    THEN [raised |-> "save", entry |-> PartialEntry]
    ELSE [raised |-> "",
          entry |-> Entry("complete", SubSeq(text_chunks, 1, Len(text_chunks) - 1))]

\* FAISS.from_texts embeds every chunk (and fails on none), then the session
\* directory is made and save_local writes the index files into it.
create_vector_store(text_chunks, fault) ==
    IF fault = "embed" \/ text_chunks = <<>>
    THEN [raised |-> "embedding", entry |-> AbsentEntry]
    ELSE IF fault = "save"
    THEN [raised |-> "save", entry |-> PartialEntry]
    ELSE [raised |-> "", entry |-> Entry("complete", text_chunks)]

(***************************************************************************)
(* Retrieval.  The embedding provider is a stub: Score is the similarity   *)
(* of the i-th passage of an index to a question.                          *)
(***************************************************************************)
Questions == {1, 2}
Score(q, i) == IF q = 1 THEN 0 ELSE i % 2

\* k of similarity_search: the library default in api.py.
KApi == 4
KEnhanced == 6
KSimple == 3
TopK(v) == CASE v = "api" -> KApi [] v = "enhanced" -> KEnhanced [] OTHER -> KSimple

Min(a, b) == IF a < b THEN a ELSE b

\* Mutation of similarity_search: passages below a score threshold are
\* left out.
similarity_search_with_threshold(passages, q, k) ==
    LET kept == SelectSeq([i \in 1..Len(passages) |-> i], LAMBDA i : Score(q, i) > 0)
    IN  [r \in 1..Min(k, Len(kept)) |-> passages[kept[r]]]

\* The k best passages by descending score, earlier passages first on a tie.
similarity_search(passages, q, k) ==
    LET n == Len(passages)
        Before(i, j) == Score(q, i) > Score(q, j) \/ (Score(q, i) = Score(q, j) /\ i < j)
        Rank(i) == 1 + Cardinality({j \in 1..n : Before(j, i)})
    IN  [r \in 1..Min(k, n) |-> passages[CHOOSE i \in 1..n : Rank(i) = r]]

\* FAISS.load_local of sessions/<id>, then similarity_search, which embeds
\* the question.
retrieve(v, sid, q, fault, store) ==
    IF store[sid].state # "complete" THEN [failed |-> "load", docs |-> <<>>]
    ELSE IF fault = "embed" THEN [failed |-> "embedding", docs |-> <<>>]
    ELSE [failed |-> "", docs |-> similarity_search(store[sid].passages, q, TopK(v))]

(***************************************************************************)
(* Answers.  The outcome of a question: the step that raised ("" when none *)
(* did), whether the processing function returned a dict, the branch that  *)
(* built it, the HTTP status, the dict, the passages given to the prompt   *)
(* and the raw text the answer model returned.                             *)
(***************************************************************************)
Body(a, r, c, conf, refs) == PyDict(a, r, c, conf, refs).fields
NoBody == Body(Missing, Missing, Missing, Missing, Missing)
NoText == Text("", FALSE, NoValue)

Raised(failed, status, docs, out) ==
    [failed |-> failed, returned |-> FALSE, path |-> "", status |-> status, body |-> NoBody,
     docs |-> docs, output |-> out.raw, unhandled |-> FALSE]
Returned(failed, path, body, docs, out) ==
    [failed |-> failed, returned |-> TRUE, path |-> path, status |-> 200, body |-> body,
     docs |-> docs, output |-> out.raw, unhandled |-> FALSE]

\* confidence_score of the primary path and of the fallback path, in hundredths.
ConfDefault == 80
ConfFallback == 50

FallbackReason == PyStr("System could not parse structured response")
FallbackClause == PyStr("Please refer to uploaded documents")

\* api.py and simple_api.py: the try/except around json.loads.
parse_answer(out, docs) ==
    LET j == json_loads(out)
    IN  IF j.raised = "JSONDecodeError"
        THEN Returned("", "fallback",
                      Body(PyStr(out.raw), PyStr(""), PyStr(""), Missing, Missing), docs, out)
        ELSE IF j.value.type # "dict"
        THEN Raised("parse", 500, docs, out)
        ELSE Returned("", "primary",
                      Body(dict_get(j.value, "answer", PyStr("")),
                           dict_get(j.value, "reason", PyStr("")),
                           dict_get(j.value, "clause", PyStr("")), Missing, Missing),
                      docs, out)

\* enhanced_api.py: the try/except around json.loads, lines 310-334.
parse_enhanced_answer(out, docs) ==
    LET j == json_loads(out)
        conf == float(dict_get(j.value, "confidence_score", PyFloat(ConfDefault)))
    IN  IF j.raised = "JSONDecodeError"
        THEN Returned("", "fallback",
                      Body(PyStr(out.raw), FallbackReason, FallbackClause,
                           PyFloat(ConfFallback), PyList(<<"Unknown">>)), docs, out)
        ELSE IF j.value.type # "dict"
        THEN Raised("parse", 500, docs, out)
        ELSE IF conf.raised # ""
        THEN Raised("float", 500, docs, out)
        ELSE Returned("", "primary",
                      Body(dict_get(j.value, "answer", PyStr("")),
                           dict_get(j.value, "reason", PyStr("")),
                           dict_get(j.value, "clause", PyStr("")),
                           conf.value,
                           dict_get(j.value, "document_references", PyList(<<>>))),
                      docs, out)

\* api.py process_question and enhanced_api.py process_enhanced_question.
\* The HTTPException(404) of the session check is raised inside the try,
\* whose `except Exception` turns every exception into HTTPException(500).
process_question(v, sid, q, fault, out, table, store) ==
    LET r == retrieve(v, sid, q, fault, store)
    IN  IF sid \notin DOMAIN table THEN Raised("session", 500, <<>>, NoText)
        ELSE IF r.failed # "" THEN Raised(r.failed, 500, <<>>, NoText)
        ELSE IF fault = "llm" THEN Raised("model", 500, r.docs, NoText)
        ELSE IF v = "enhanced" THEN parse_enhanced_answer(out, r.docs)
        ELSE parse_answer(out, r.docs)

\* simple_api.py get_answer: `except Exception` returns an answer dict whose
\* answer is the error message.
get_answer(sid, q, fault, out, store) ==
    LET r == retrieve("simple", sid, q, fault, store)
        ErrorAnswer(failed, docs, o) ==
            Returned(failed, "error",
                     Body(PyStr("Error: " \o failed), PyStr(""), PyStr(""), Missing, Missing),
                     docs, o)
        parsed == parse_answer(out, r.docs)
    IN  IF r.failed # "" THEN ErrorAnswer(r.failed, <<>>, NoText)
        ELSE IF fault = "llm" THEN ErrorAnswer("model", r.docs, NoText)
        ELSE IF ~parsed.returned THEN ErrorAnswer(parsed.failed, r.docs, out)
        ELSE parsed

\* QuestionResponse(**result) / AnswerResponse(**result): pydantic checks the
\* declared field types.
response_model_valid(v, body) ==
    /\ \A k \in {"answer", "reason", "clause"} : body[k].type = "str"
    /\ v = "enhanced" =>
         /\ body["confidence_score"].type \in {"float", "int"}
         /\ body["document_references"].type = "list"

\* The /ask-question handlers.
ask_question(v, sid, q, fault, out, table, store) ==
    LET res == IF v = "simple" THEN get_answer(sid, q, fault, out, store)
               ELSE process_question(v, sid, q, fault, out, table, store)
    IN  IF v = "simple" /\ sid \notin DOMAIN table
        THEN Raised("session", 404, <<>>, NoText)
        ELSE IF ~res.returned THEN res
        ELSE IF response_model_valid(v, res.body) THEN res
        ELSE [res EXCEPT !.failed = "validation", !.status = 500,
                         !.unhandled = (v = "simple")]

(***************************************************************************)
(* Uploads.                                                                *)
(***************************************************************************)
Meta(filename, document_type, chunks_count, processed_chunks) ==
    [filename |-> filename, document_type |-> document_type,
     chunks_count |-> chunks_count, processed_chunks |-> processed_chunks]
NoMeta == Meta("", "", 0, 0)

AllowedExtensions == {"pdf", "docx", "doc", "eml", "msg", "txt"}

\* The file-type check that opens the upload handlers: 0 when the file is
\* accepted, else the status the client gets.  api.py raises its 400 inside
\* `try ... except Exception`, which answers 500; enhanced_api.py re-raises
\* HTTPException; simple_api.py checks before its try.
filetype_status(v, ext) ==
    CASE v = "api" -> IF ext = "pdf" THEN 0 ELSE 500
      [] v = "enhanced" -> IF ext \in AllowedExtensions THEN 0 ELSE 400
      [] OTHER -> IF ext = "pdf" THEN 0 ELSE 400

\* Text extraction and chunking of the three upload handlers.
ingest(v, d) ==
    LET pdf == IF v = "api" THEN get_pdf_text(d) ELSE extract_text_from_pdf(d)
        pd == process_document(d)
        text_chunks == create_enhanced_text_chunks(pd.chunks)
    IN  IF v = "enhanced"
        THEN IF pd.failed # ""
             THEN [failed |-> pd.failed, status |-> pd.status, chunks |-> <<>>, meta |-> NoMeta]
             ELSE [failed |-> "", status |-> 0, chunks |-> text_chunks,
                   meta |-> Meta(d.filename, pd.doc_type, Len(pd.chunks), Len(text_chunks))]
        ELSE IF pdf.raised # ""
        THEN [failed |-> "extract", status |-> 500, chunks |-> <<>>, meta |-> NoMeta]
        ELSE IF pdf.blank
        THEN [failed |-> "notext", status |-> 500, chunks |-> <<>>, meta |-> NoMeta]
        ELSE [failed |-> "", status |-> 0, chunks |-> pdf.chunks,
              meta |-> Meta(d.filename, "", 0, 0)]

\* Mutation of registered: the session info is stored before the index is
\* built and saved.
registered_before_store(ingest_failed, store_raised) == ingest_failed = ""

\* The statement that stores the session info runs when nothing before it
\* raised: it follows the call that builds and saves the index.
registered(ingest_failed, store_raised) == ingest_failed = "" /\ store_raised = ""

\* The upload handlers after `await file.read()`: what the request answers,
\* what is left at sessions/<id>, whether the session is registered and
\* whether the temporary file is unlinked.
upload_document(v, d, fault) ==
    LET ing == ingest(v, d)
        cvs == IF ing.failed = "" THEN create_vector_store(ing.chunks, fault)
               ELSE [raised |-> "", entry |-> AbsentEntry]
        reg == registered(ing.failed, cvs.raised)
    IN  [failed |-> IF ing.failed # "" THEN ing.failed ELSE cvs.raised,
         status |-> IF ing.failed # "" THEN ing.status
                    ELSE IF cvs.raised # "" THEN 500 ELSE 200,
         entry |-> cvs.entry,
         saved |-> cvs.entry.state = "complete",
         registered |-> reg,
         meta |-> IF reg THEN ing.meta ELSE NoMeta,
         unlinked |-> v # "simple" \/ (ing.failed = "" /\ cvs.raised = "")]

(***************************************************************************)
(* Session info and delete (api.py and enhanced_api.py).                   *)
(***************************************************************************)
RmtreeOutcomes == {"ok", "fail_first", "fail_midway"}

\* Mutation of rmtree: the call returns and the directory is still there.
rmtree_leaves_files(entry, outcome) == [raised |-> FALSE, entry |-> entry]

\* shutil.rmtree: removes the tree, or raises having removed nothing or a
\* part of it.
rmtree(entry, outcome) ==
    CASE outcome = "ok" -> [raised |-> FALSE, entry |-> AbsentEntry]
      [] outcome = "fail_first" -> [raised |-> TRUE, entry |-> entry]
      [] OTHER -> [raised |-> TRUE, entry |-> PartialEntry]

\* Mutation of delete_session_found: the membership check is missing.
delete_session_unchecked(sid, table) == TRUE

\* The check that opens delete_session.
delete_session_found(sid, table) == sid \in DOMAIN table

\* delete_session: 404 before the try; in the try the directory is removed
\* when it exists, then the table entry is deleted; any exception is 500.
delete_session(sid, outcome, table, store) ==
    LET rm == IF store[sid].state # "absent" THEN rmtree(store[sid], outcome)
              ELSE [raised |-> FALSE, entry |-> store[sid]]
    IN  IF ~delete_session_found(sid, table)
        THEN [status |-> 404, failed |-> "session", entry |-> store[sid], removed |-> FALSE]
        ELSE IF rm.raised
        THEN [status |-> 500, failed |-> "rmtree", entry |-> rm.entry, removed |-> FALSE]
        ELSE IF sid \notin DOMAIN table
        THEN [status |-> 500, failed |-> "KeyError", entry |-> rm.entry, removed |-> FALSE]
        ELSE [status |-> 200, failed |-> "", entry |-> rm.entry, removed |-> TRUE]

(***************************************************************************)
(* State.                                                                  *)
(***************************************************************************)
VARIABLES
    variant,          \* the deployed program
    active_sessions,  \* the metadata table: session id -> session info
    disk,             \* sessions/<id> for every id
    uploading,        \* upload handlers waiting in `await file.read()`: id -> extension
    tempfiles,        \* temporary upload files not unlinked, by the id of their upload
    next_uuid,        \* the next id uuid4 returns
    created,          \* ids uuid4 has returned
    persisted,        \* ids whose save_local call returned
    deleted,          \* ids whose delete_session returned its success message
    last              \* the request answered last

\* The chunker of each program, on its own (get_text_chunks, create_chunks,
\* create_enhanced_text_chunks).
VARIABLES
    chunk_config,     \* the program whose chunker is run
    chunk_text,       \* length in characters of the text handed to it (0: none yet)
    chunk_out         \* the chunks it returned, as ranges of the split text

\* The Streamlit app app.py: one server process, several browser sessions.
VARIABLES
    pdf_processed,    \* st.session_state.pdf_processed of each browser session
    pdf_docs,         \* the file in the uploader of each browser session ("" when none)
    faiss_index,      \* the directory faiss_index in the working directory
    processed_upload, \* the upload each browser session processed last ("" when none)
    app_last          \* the question answered last

\* The Streamlit client enhanced_app.py: one browser session and the API.
VARIABLES
    session_id,       \* st.session_state.session_id (0 is None)
    document_info,    \* st.session_state.document_info ("" is None)
    chat_history,     \* st.session_state.chat_history
    uploaded_file,    \* the file in the uploader ("" when none)
    api_sessions      \* number of session ids the API has returned

service_vars == <<variant, active_sessions, disk, uploading, tempfiles, next_uuid, created,
                  persisted, deleted, last>>
chunk_vars == <<chunk_config, chunk_text, chunk_out>>
app_vars == <<pdf_processed, pdf_docs, faiss_index, processed_upload, app_last>>
client_vars == <<session_id, document_info, chat_history, uploaded_file, api_sessions>>

vars == <<service_vars, chunk_vars, app_vars, client_vars>>

Request(op, sid, known, res, info) ==
    [op |-> op, sid |-> sid, known |-> known, info |-> info] @@ res

NoRequest == Request("", 0, FALSE, Raised("", 0, <<>>, NoText), NoMeta)

TypeOK ==
    /\ variant \in Variants
    /\ DOMAIN active_sessions \subseteq SessionIds
    /\ DOMAIN disk = RequestIds
    /\ \A s \in RequestIds : disk[s].state \in {"absent", "partial", "complete"}
    /\ DOMAIN uploading \subseteq SessionIds
    /\ tempfiles \subseteq SessionIds
    /\ next_uuid \in 1..(MaxSessions + 1)
    /\ created \subseteq SessionIds
    /\ persisted \subseteq SessionIds
    /\ deleted \subseteq SessionIds
    /\ last.op \in {"", "upload", "ask", "info", "delete"}

\* The API service before its first request.
ServiceInit ==
    /\ variant \in Variants
    /\ active_sessions = [s \in {} |-> NoMeta]
    /\ disk = [s \in RequestIds |-> AbsentEntry]
    /\ uploading = [s \in {} |-> ""]
    /\ tempfiles = {}
    /\ next_uuid = 1
    /\ created = {}
    /\ persisted = {}
    /\ deleted = {}
    /\ last = NoRequest

\* The other programs, not running.
ChunkIdle == chunk_config = "" /\ chunk_text = 0 /\ chunk_out = <<>>
AppIdle ==
    /\ pdf_processed = <<>> /\ pdf_docs = <<>>
    /\ faiss_index = [owner |-> 0, doc |-> ""]
    /\ processed_upload = <<>>
    /\ app_last = [browser |-> 0, processed |-> FALSE, outcome |-> "",
                   index |-> [owner |-> 0, doc |-> ""]]
ClientIdle ==
    /\ session_id = 0 /\ document_info = "" /\ chat_history = <<>>
    /\ uploaded_file = "" /\ api_sessions = 0

Init == ServiceInit /\ ChunkIdle /\ AppIdle /\ ClientIdle

\* Mutation of uuid4: after the first call, the id of the call before.
uuid4_repeats == IF next_uuid = 1 THEN next_uuid ELSE next_uuid - 1

\* uuid.uuid4(): an id no earlier call returned.
uuid4 == next_uuid

\* An upload whose file type the handler refuses.
UploadRejected(ext) ==
    /\ filetype_status(variant, ext) # 0
    /\ last' = Request("upload", 0, FALSE,
                       Raised("filetype", filetype_status(variant, ext), <<>>, NoText), NoMeta)
    /\ UNCHANGED <<variant, active_sessions, disk, uploading, tempfiles, next_uuid,
                   created, persisted, deleted>>
    /\ UNCHANGED <<chunk_vars, app_vars, client_vars>>

\* An accepted upload up to `await file.read()`: the id is generated and the
\* temporary file is created.
UploadBegin(ext) ==
    /\ filetype_status(variant, ext) = 0
    /\ next_uuid <= MaxSessions
    /\ uploading' = [s \in DOMAIN uploading \cup {uuid4} |->
                        IF s = uuid4 THEN ext ELSE uploading[s]]
    /\ tempfiles' = tempfiles \cup {uuid4}
    /\ next_uuid' = next_uuid + 1
    /\ created' = created \cup {uuid4}
    /\ UNCHANGED <<variant, active_sessions, disk, persisted, deleted, last>>
    /\ UNCHANGED <<chunk_vars, app_vars, client_vars>>

\* The rest of the upload handler, on the document d that was read.
UploadFinish(sid, d, fault) ==
    /\ sid \in DOMAIN uploading
    /\ d.ext = uploading[sid]
    /\ LET up == upload_document(variant, d, fault)
       IN  /\ disk' = [disk EXCEPT ![sid] = up.entry]
           /\ persisted' = IF up.saved THEN persisted \cup {sid} ELSE persisted
           /\ active_sessions' =
                IF up.registered
                THEN [s \in DOMAIN active_sessions \cup {sid} |->
                        IF s = sid THEN up.meta ELSE active_sessions[s]]
                ELSE active_sessions
           /\ tempfiles' = IF up.unlinked THEN tempfiles \ {sid} ELSE tempfiles
           /\ last' = Request("upload", sid, FALSE,
                              [Raised(up.failed, up.status, <<>>, NoText)
                                 EXCEPT !.returned = (up.status = 200)],
                              up.meta)
    /\ uploading' = [s \in DOMAIN uploading \ {sid} |-> uploading[s]]
    /\ UNCHANGED <<variant, next_uuid, created, deleted>>
    /\ UNCHANGED <<chunk_vars, app_vars, client_vars>>

\* What the external calls of one question do: the embedding call fails, the
\* answer-model call fails, or the answer model returns a text.
ExternalCalls ==
    {[fault |-> "embed", out |-> NoText], [fault |-> "llm", out |-> NoText]} \cup
    {[fault |-> "none", out |-> o] : o \in ModelOutputs}

\* The handler gets as far as the external calls: the session is registered
\* (simple_api.py checks it first, the others inside process_question) and
\* its index loads.
ReachesExternalCalls(sid) ==
    sid \in DOMAIN active_sessions /\ disk[sid].state = "complete"

\* POST /ask-question, ending before any external call is made.
AskUnavailable(sid) ==
    /\ ~ReachesExternalCalls(sid)
    /\ last' = Request("ask", sid, sid \in DOMAIN active_sessions,
                       ask_question(variant, sid, 1, "none", NoText, active_sessions, disk),
                       NoMeta)
    /\ UNCHANGED <<variant, active_sessions, disk, uploading, tempfiles, next_uuid,
                   created, persisted, deleted>>
    /\ UNCHANGED <<chunk_vars, app_vars, client_vars>>

\* Mutation of AskQuestion: the handler writes the index it loaded back to
\* sessions/<id> and the write is cut short.
AskQuestion_rewrites_index(sid, q, ext) ==
    /\ ReachesExternalCalls(sid)
    /\ last' = Request("ask", sid, sid \in DOMAIN active_sessions,
                       ask_question(variant, sid, q, ext.fault, ext.out, active_sessions, disk),
                       NoMeta)
    /\ disk' = [disk EXCEPT ![sid] = PartialEntry]
    /\ UNCHANGED <<variant, active_sessions, uploading, tempfiles, next_uuid,
                   created, persisted, deleted>>
    /\ UNCHANGED <<chunk_vars, app_vars, client_vars>>

\* POST /ask-question on a session whose index loads.
AskQuestion(sid, q, ext) ==
    /\ ReachesExternalCalls(sid)
    /\ last' = Request("ask", sid, sid \in DOMAIN active_sessions,
                       ask_question(variant, sid, q, ext.fault, ext.out, active_sessions, disk),
                       NoMeta)
    /\ UNCHANGED <<variant, active_sessions, disk, uploading, tempfiles, next_uuid,
                   created, persisted, deleted>>
    /\ UNCHANGED <<chunk_vars, app_vars, client_vars>>

\* GET /sessions/{session_id}
GetSessionInfo(sid) ==
    /\ variant # "simple"
    /\ last' = IF sid \in DOMAIN active_sessions
               THEN Request("info", sid, TRUE,
                            [Raised("", 200, <<>>, NoText) EXCEPT !.returned = TRUE],
                            active_sessions[sid])
               ELSE Request("info", sid, FALSE, Raised("session", 404, <<>>, NoText), NoMeta)
    /\ UNCHANGED <<variant, active_sessions, disk, uploading, tempfiles, next_uuid,
                   created, persisted, deleted>>
    /\ UNCHANGED <<chunk_vars, app_vars, client_vars>>

\* DELETE /sessions/{session_id}
DeleteSession(sid, outcome) ==
    /\ variant # "simple"
    /\ LET del == delete_session(sid, outcome, active_sessions, disk)
       IN  /\ disk' = [disk EXCEPT ![sid] = del.entry]
           /\ active_sessions' =
                IF del.removed
                THEN [s \in DOMAIN active_sessions \ {sid} |-> active_sessions[s]]
                ELSE active_sessions
           /\ deleted' = IF del.removed THEN deleted \cup {sid} ELSE deleted
           /\ last' = Request("delete", sid, sid \in DOMAIN active_sessions,
                              [Raised(del.failed, del.status, <<>>, NoText)
                                 EXCEPT !.returned = (del.status = 200)],
                              NoMeta)
    /\ UNCHANGED <<variant, uploading, tempfiles, next_uuid, created, persisted>>
    /\ UNCHANGED <<chunk_vars, app_vars, client_vars>>

Next ==
    \/ \E ext \in Extensions : UploadRejected(ext)
    \/ \E ext \in Extensions : UploadBegin(ext)
    \/ \E sid \in SessionIds, d \in Documents, fault \in UploadFaults :
          UploadFinish(sid, d, fault)
    \/ \E sid \in RequestIds : AskUnavailable(sid)
    \/ \E sid \in SessionIds, q \in Questions, ext \in ExternalCalls :
          AskQuestion(sid, q, ext)
    \/ \E sid \in RequestIds : GetSessionInfo(sid)
    \/ \E sid \in RequestIds, outcome \in RmtreeOutcomes : DeleteSession(sid, outcome)

Spec == Init /\ [][Next]_vars

(***************************************************************************)
(* The chunkers.  A text is taken by its length in characters, without a   *)
(* separator the splitter could cut at: the splitter then falls back on    *)
(* its last separator "" and cuts between characters.  A chunk is the      *)
(* range of characters of the split text it holds.                         *)
(***************************************************************************)
\* Largest number of chunks the texts tried are cut into.
MaxChunks == 4

ChunkerConfigs == {"api", "app", "enhanced", "simple"}

\* chunk_size and chunk_overlap of RecursiveCharacterTextSplitter(...).
chunk_size(c) ==
    CASE c \in {"api", "app"} -> 10000 [] c = "enhanced" -> 8000 [] OTHER -> 1000
chunk_overlap(c) ==
    CASE c \in {"api", "app"} -> 1000 [] c = "enhanced" -> 1000 [] OTHER -> 200

\* Length of the prefix "[Source: PDF_Page_1, Page: 1]\n\n" that
\* create_enhanced_text_chunks puts in front of a block.
TagLength == 31

\* Length of the text the splitter of program c gets for a text of n characters.
SplitLength(c, n) == IF c = "enhanced" THEN TagLength + n ELSE n

\* Mutation of split_text: the separator list lacks "", a text without
\* separators comes back as one chunk.
split_text_without_last_separator(n, size, overlap) == <<[from |-> 1, to |-> n]>>

\* split_text on n characters: chunks of `size` characters, each starting
\* `overlap` characters before the end of the one before; the last chunk is
\* what remains.
RECURSIVE split_from(_, _, _, _)
split_from(from, n, size, overlap) ==
    IF from + size - 1 >= n THEN <<[from |-> from, to |-> n]>>
    ELSE <<[from |-> from, to |-> from + size - 1]>> \o
         split_from(from + size - overlap, n, size, overlap)
split_text(n, size, overlap) == split_from(1, n, size, overlap)

\* Lengths tried for program c: tiny texts, and the lengths around each
\* point where one more chunk is needed, up to MaxChunks chunks.
TextLengths(c) ==
    LET size == chunk_size(c)
        step == chunk_size(c) - chunk_overlap(c)
        full == {1, 2, chunk_overlap(c), chunk_overlap(c) + 1} \cup
                {size + (j - 1) * step + d : j \in 1..MaxChunks, d \in {-1, 0, 1}}
        tag == IF c = "enhanced" THEN TagLength ELSE 0
    IN  {l - tag : l \in {m \in full : m > tag /\ m <= size + (MaxChunks - 1) * step}}

ChunkInit ==
    /\ ServiceInit /\ variant = "api"
    /\ AppIdle /\ ClientIdle
    /\ chunk_config \in ChunkerConfigs
    /\ chunk_text \in TextLengths(chunk_config)
    /\ chunk_out = <<>>

\* api.py / app.py get_text_chunks and simple_api.py create_chunks.
get_text_chunks ==
    /\ chunk_config \in {"api", "app", "simple"}
    /\ chunk_out = <<>>
    /\ chunk_out' = split_text(SplitLength(chunk_config, chunk_text),
                               chunk_size(chunk_config), chunk_overlap(chunk_config))
    /\ UNCHANGED <<chunk_config, chunk_text, service_vars, app_vars, client_vars>>

\* enhanced_api.py create_enhanced_text_chunks on one block.
create_enhanced_text_chunks_of_block ==
    /\ chunk_config = "enhanced"
    /\ chunk_out = <<>>
    /\ chunk_out' = split_text(SplitLength(chunk_config, chunk_text),
                               chunk_size(chunk_config), chunk_overlap(chunk_config))
    /\ UNCHANGED <<chunk_config, chunk_text, service_vars, app_vars, client_vars>>

ChunkNext == get_text_chunks \/ create_enhanced_text_chunks_of_block

SpecChunker == ChunkInit /\ [][ChunkNext]_vars

(***************************************************************************)
(* app.py.  Streamlit runs the script once per interaction of a browser    *)
(* session; st.session_state belongs to the browser session, the working   *)
(* directory and its faiss_index directory to the server process.  One     *)
(* action is one run of the script, with the question box empty unless the *)
(* run is a question.                                                      *)
(***************************************************************************)
\* Number of browser sessions connected to the app.
MaxBrowsers == 2
Browsers == 1..MaxBrowsers

\* Files the uploader takes (type="pdf").
AppDocuments == {d \in Documents : d.ext = "pdf"}

\* The directory faiss_index: the browser session and the upload it was
\* built from; owner 0 when the directory is not there.
FaissIndex(owner, doc) == [owner |-> owner, doc |-> doc]
NoFaissIndex == FaissIndex(0, "")

AppQuestion(b, processed, outcome, index) ==
    [browser |-> b, processed |-> processed, outcome |-> outcome, index |-> index]

AppInit ==
    /\ ServiceInit /\ variant = "api"
    /\ ChunkIdle /\ ClientIdle
    /\ pdf_processed = [b \in Browsers |-> FALSE]
    /\ pdf_docs = [b \in Browsers |-> ""]
    /\ faiss_index = NoFaissIndex
    /\ processed_upload = [b \in Browsers |-> ""]
    /\ app_last = AppQuestion(0, FALSE, "", NoFaissIndex)

\* A file is put into, or taken out of, the uploader of the sidebar.
ChooseFile(b, name) ==
    /\ pdf_docs[b] # name
    /\ pdf_docs' = [pdf_docs EXCEPT ![b] = name]
    /\ UNCHANGED <<pdf_processed, faiss_index, processed_upload, app_last>>
    /\ UNCHANGED <<service_vars, chunk_vars, client_vars>>

\* The button "Process": get_pdf_text, get_text_chunks, get_vector_store.
\* Without a file, with a PDF that cannot be read or has no text, or when
\* the embedding call fails, an error is shown and nothing is written.
Process(b, embedding_fails) ==
    LET d == CHOOSE x \in AppDocuments : x.filename = pdf_docs[b]
        built == /\ pdf_docs[b] # ""
                 /\ get_pdf_text(d).raised = ""
                 /\ ~get_pdf_text(d).blank
                 /\ ~embedding_fails
    IN  /\ pdf_docs[b] # "" \/ ~embedding_fails
        /\ faiss_index' = IF built THEN FaissIndex(b, pdf_docs[b]) ELSE faiss_index
        /\ pdf_processed' = IF built THEN [pdf_processed EXCEPT ![b] = TRUE]
                            ELSE pdf_processed
        /\ processed_upload' = IF built THEN [processed_upload EXCEPT ![b] = pdf_docs[b]]
                               ELSE processed_upload
        /\ UNCHANGED <<pdf_docs, app_last>>
        /\ UNCHANGED <<service_vars, chunk_vars, client_vars>>

\* The button "Reset/Upload New PDF", shown when pdf_processed is set.
Reset(b) ==
    /\ pdf_processed[b]
    /\ pdf_processed' = [pdf_processed EXCEPT ![b] = FALSE]
    /\ faiss_index' = NoFaissIndex
    /\ UNCHANGED <<pdf_docs, processed_upload, app_last>>
    /\ UNCHANGED <<service_vars, chunk_vars, client_vars>>

\* A question is entered: a warning when pdf_processed is not set, else
\* user_input loads faiss_index, which fails when the directory is not there.
Question(b) ==
    /\ app_last' =
          IF ~pdf_processed[b] THEN AppQuestion(b, FALSE, "warning", NoFaissIndex)
          ELSE IF faiss_index = NoFaissIndex THEN AppQuestion(b, TRUE, "error", NoFaissIndex)
          ELSE AppQuestion(b, TRUE, "answered", faiss_index)
    /\ UNCHANGED <<pdf_processed, pdf_docs, faiss_index, processed_upload>>
    /\ UNCHANGED <<service_vars, chunk_vars, client_vars>>

AppNext ==
    \/ \E b \in Browsers, name \in {d.filename : d \in AppDocuments} \cup {""} :
          ChooseFile(b, name)
    \/ \E b \in Browsers, embedding_fails \in BOOLEAN : Process(b, embedding_fails)
    \/ \E b \in Browsers : Reset(b)
    \/ \E b \in Browsers : Question(b)

SpecApp == AppInit /\ [][AppNext]_vars

(***************************************************************************)
(* enhanced_app.py.  The Streamlit client of enhanced_api.py: one browser  *)
(* session, one action per run of the script.  What the server answers is  *)
(* an input of the client.                                                 *)
(***************************************************************************)
\* Number of sessions the server hands out, and of questions answered.
MaxUploads == 3
MaxHistory == 2

\* Extensions the uploader of the sidebar takes.
UploaderTypes == {"pdf", "docx", "doc", "eml", "msg", "txt"}
ClientFiles == {d.filename : d \in {x \in Documents : x.ext \in UploaderTypes}}

\* An entry of chat_history, with the session_id its request carried.
Chat(q, sid) == [question |-> q, session |-> sid]

ClientInit ==
    /\ ServiceInit /\ variant = "enhanced"
    /\ ChunkIdle /\ AppIdle /\ ClientIdle

\* A file is put into, or taken out of, the uploader.
ChooseDocument(name) ==
    /\ uploaded_file # name
    /\ uploaded_file' = name
    /\ UNCHANGED <<session_id, document_info, chat_history, api_sessions>>
    /\ UNCHANGED <<service_vars, chunk_vars, app_vars>>

\* The button "Process Document": upload_document_to_api answers the JSON
\* of a 200, with the session id the server created, or None.
ProcessDocument(ok) ==
    /\ uploaded_file # ""
    /\ ok => api_sessions < MaxUploads
    /\ IF ok
       THEN /\ api_sessions' = api_sessions + 1
            /\ session_id' = api_sessions + 1
            /\ document_info' = uploaded_file
       ELSE UNCHANGED <<api_sessions, session_id, document_info>>
    /\ UNCHANGED <<chat_history, uploaded_file>>
    /\ UNCHANGED <<service_vars, chunk_vars, app_vars>>

\* The button "Clear Document", shown while document_info is set.
ClearDocument ==
    /\ document_info # ""
    /\ session_id' = 0
    /\ document_info' = ""
    /\ chat_history' = <<>>
    /\ UNCHANGED <<uploaded_file, api_sessions>>
    /\ UNCHANGED <<service_vars, chunk_vars, app_vars>>

\* The chat input, shown while session_id is set: ask_question_to_api with
\* the session_id held; the answer of a 200 is appended to chat_history.
AskFromChat(q, ok) ==
    /\ session_id # 0
    /\ ok => Len(chat_history) < MaxHistory
    /\ chat_history' = IF ok THEN Append(chat_history, Chat(q, session_id))
                       ELSE chat_history
    /\ UNCHANGED <<session_id, document_info, uploaded_file, api_sessions>>
    /\ UNCHANGED <<service_vars, chunk_vars, app_vars>>

ClientNext ==
    \/ \E name \in ClientFiles \cup {""} : ChooseDocument(name)
    \/ \E ok \in BOOLEAN : ProcessDocument(ok)
    \/ ClearDocument
    \/ \E q \in Questions, ok \in BOOLEAN : AskFromChat(q, ok)

SpecClient == ClientInit /\ [][ClientNext]_vars

(***************************************************************************)
(* Properties.                                                             *)
(***************************************************************************)
\* The text of the last answered question, as one of ModelOutputs (NoText
\* when the answer model returned nothing).
LastOutput == CHOOSE o \in ModelOutputs \cup {NoText} : o.raw = last.output
ModelAnswered == last.op = "ask" /\ last.output # NoText.raw

\* C1: in api.py and enhanced_api.py every session id in active_sessions has
\* a complete, loadable index under sessions/<id>, also after a
\* delete_session that failed or stopped part-way.
C1_LiveMetadataHasLoadableIndex ==
    variant \in {"api", "enhanced"} =>
        \A s \in DOMAIN active_sessions : disk[s].state = "complete"

\* C2: a session id is in the metadata table only if the save of its index
\* returned; an upload whose build or save failed leaves its id out of the
\* table.
C2_RegisteredOnlyAfterPersist ==
    /\ \A s \in DOMAIN active_sessions : s \in persisted
    /\ (last.op = "upload" /\ last.failed \in {"embedding", "save"}) =>
          (last.sid \notin DOMAIN active_sessions /\ last.sid \notin persisted)

\* C2 witness: one upload is registered after its save returned, and another
\* upload failed while building or saving and is not registered.
C2_Witness ==
    /\ \E s \in DOMAIN active_sessions : disk[s].state = "complete"
    /\ last.op = "upload" /\ last.failed \in {"embedding", "save"}
    /\ last.sid \notin DOMAIN active_sessions

\* C3: a question for a session id that is not in the metadata table is
\* answered 404.
C3_UnknownSessionIs404 ==
    (last.op = "ask" /\ ~last.known) => last.status = 404

\* C4: once delete_session has succeeded for an id, the id is not in the
\* metadata table and sessions/<id> is absent, in every later state;
\* get_session_info answers 404 for it and a question for it never gets an
\* index loaded.
C4_DeletedStaysGone ==
    \A s \in deleted :
        /\ s \notin DOMAIN active_sessions
        /\ disk[s].state = "absent"
        /\ (last.op = "info" /\ last.sid = s) => last.status = 404
        /\ (last.op = "ask" /\ last.sid = s) =>
              (last.failed = "session" /\ last.docs = <<>> /\ last.status # 200)

\* C4 witness: after a successful delete and with another session
\* registered, a question was asked for the deleted id.
C4_Witness ==
    /\ last.op = "ask" /\ last.sid \in deleted
    /\ DOMAIN active_sessions # {}

\* C5: delete_session for an id that is not in the metadata table answers
\* 404 and changes neither the table nor any sessions/<id>; so a delete of an
\* id already deleted answers 404.  (A step that changes `last` into the
\* answer of a delete is a delete_session request.)
C5_DeleteUnknownIsNotFound ==
    [][(last' # last /\ last'.op = "delete") =>
          /\ ~last'.known =>
                (last'.status = 404 /\ active_sessions' = active_sessions /\ disk' = disk)
          /\ last'.sid \in deleted => (~last'.known /\ last'.status = 404)]_vars

\* C5 witness: a second delete of a deleted id was answered 404.
C5_Witness ==
    last.op = "delete" /\ last.sid \in deleted /\ ~last.known /\ last.status = 404

\* C6: a question on a registered session whose index load, embedding call
\* or answer-model call failed does not end as a status 200 answer.
C6_UpstreamFailureIsNotAnAnswer ==
    (last.op = "ask" /\ last.known /\ last.failed \in {"load", "embedding", "model"}) =>
        last.status # 200

\* C7: in enhanced_api.py, whenever the answer model returns a text that is
\* not a JSON object, process_enhanced_question returns the fallback result:
\* the text as answer, the fixed reason, confidence 0.5.
C7_NonObjectOutputFallsBack ==
    (variant = "enhanced" /\ ModelAnswered /\ json_loads(LastOutput).value.type # "dict") =>
        /\ last.returned /\ last.path = "fallback" /\ last.status = 200
        /\ last.body["answer"].type = "str"
        /\ last.body["reason"] = FallbackReason
        /\ last.body["confidence_score"] = PyFloat(ConfFallback)

\* C8: every answer enhanced_api.py returns has its confidence_score in
\* [0, 1].
C8_ConfidenceWithinUnitInterval ==
    (variant = "enhanced" /\ last.op = "ask" /\ last.status = 200) =>
        /\ last.body["confidence_score"].num >= 0
        /\ last.body["confidence_score"].num <= 100

\* C9: in enhanced_api.py, when the answer model returns a JSON object whose
\* confidence_score is absent or is a value float() takes for no number (a
\* word, null, a list), process_enhanced_question
\* returns a result with confidence_score 0.8 and the answer copied through.
C9_MissingOrNonNumericConfidenceDefaults ==
    (/\ variant = "enhanced" /\ ModelAnswered
     /\ json_loads(LastOutput).value.type = "dict"
     /\ float(dict_get(json_loads(LastOutput).value, "confidence_score", PyNone)).raised # "") =>
        /\ last.returned /\ last.path = "primary"
        /\ last.body["confidence_score"] = PyFloat(ConfDefault)
        /\ last.body["answer"] = json_loads(LastOutput).value.fields["answer"]

\* C10: on the fallback path of enhanced_api.py the document_references are
\* the source tags of the first one or two passages given to the prompt.
C10_FallbackReferencesAreSuppliedTags ==
    (variant = "enhanced" /\ last.op = "ask" /\ last.path = "fallback") =>
        LET refs == last.body["document_references"].items
        IN  /\ Len(refs) = Min(2, Len(last.docs))
            /\ \A i \in 1..Len(refs) : refs[i] = last.docs[i].source

\* Documents the parser reads and whose text is empty or whitespace only.
NoTextDocuments ==
    {d \in Documents : d.readable /\ \A i \in 1..Len(d.blocks) : d.blocks[i] = "blank"}

\* C11: an upload handler that finishes on a document without text content
\* (a PDF without extractable text, a blank .docx, an empty .txt) registers
\* no session for the upload's id and persists no index for it, in all three
\* variants.
C11_NoTextUploadIsIngestionFailure ==
    [][\A sid \in SessionIds, d \in NoTextDocuments, fault \in UploadFaults :
          UploadFinish(sid, d, fault) =>
              /\ sid \notin DOMAIN active_sessions'
              /\ disk'[sid].state # "complete"]_vars

\* C12: an upload that failed after its id was generated, while the index
\* was built (an embedding call failed) or while it was saved, leaves
\* nothing at sessions/<id>.
C12_FailedIngestionLeavesNothing ==
    (last.op = "upload" /\ last.failed \in {"embedding", "save"}) =>
        disk[last.sid].state = "absent"

\* C13: the calls of uuid4 made so far returned pairwise different ids,
\* different ids have different storage locations, and an upload handler
\* works under an id that belongs to no registered session and no other
\* upload: no two sessions share a persisted index.
C13_SessionIdsAndLocationsAreDistinct ==
    /\ Cardinality(created) = next_uuid - 1
    /\ \A s, t \in created : s # t => session_path(variant, s) # session_path(variant, t)
    /\ DOMAIN uploading \cap DOMAIN active_sessions = {}
    /\ \A s \in DOMAIN uploading : disk[s].state = "absent"

\* C13 witness: two uploads were in flight at once, one has finished and is
\* registered with its index saved, the other is still reading its file.
C13_Witness ==
    /\ \E s \in DOMAIN active_sessions : disk[s].state = "complete"
    /\ DOMAIN uploading # {}
    /\ Cardinality(created) = 2

\* C14: in api.py and enhanced_api.py requests on one session id see each
\* change of the table and of sessions/<id> as a whole: a question that got
\* past the 'session exists' check finds the index loadable, never deleted
\* or half-deleted, and of two delete_session requests for a registered id
\* that are served one after the other the first succeeds and the second is
\* answered 404.
C14_SameSessionRequestsAppearAtomic ==
    [][(variant \in {"api", "enhanced"}) =>
          /\ (last'.op = "ask" /\ last'.known) => last'.failed # "load"
          /\ (last.op = "delete" /\ last.known /\ last' # last
                /\ last'.op = "delete" /\ last'.sid = last.sid) =>
                (last.status = 200 /\ last'.status = 404)]_vars

\* C15: a step that answers a question (with an answer, with a failure of
\* any step, the embedding call and the answer-model call included) leaves
\* the metadata table and every sessions/<id> as they were.
C15_AskOnlyReads ==
    [][(last' # last /\ last'.op = "ask") =>
          (active_sessions' = active_sessions /\ disk' = disk)]_vars

\* C15 witness: a question on a registered session with a saved index ended
\* at the answer-model call, and the session and its index are still there.
C15_Witness ==
    /\ last.op = "ask" /\ last.known /\ last.failed = "model"
    /\ last.sid \in DOMAIN active_sessions
    /\ disk[last.sid].state = "complete"

\* The document a registered session was made from, and the passages its
\* upload handler built from it in memory.
UploadedDocument(s) == CHOOSE d \in Documents : d.filename = active_sessions[s].filename
BuiltAtIngestion(s) == ingest(variant, UploadedDocument(s)).chunks

C17_EverySubChunkCarriesItsSourceTag ==
    variant = "enhanced" =>
        \A s \in SessionIds :
            \A i \in 1..Len(disk[s].passages) : disk[s].passages[i].tagged

\* C18: for every session enhanced_api.py registered, the chunks_count of
\* its metadata (the pages_processed of the upload's answer) is the number
\* of passages of the index saved for it.
C18_ChunksCountIsPassageCount ==
    variant = "enhanced" =>
        /\ \A s \in DOMAIN active_sessions :
              disk[s].state = "complete" =>
                  active_sessions[s].chunks_count = Len(disk[s].passages)
        /\ (last.op = "upload" /\ last.status = 200) =>
              last.info.chunks_count = Len(disk[last.sid].passages)

\* C19: no upload registers a session whose index is empty: the index an
\* upload saved and registered has at least one passage, no saved index has
\* none, and a question whose retrieval went through got at least one
\* passage.
C19_NoRegisteredIndexIsEmpty ==
    /\ (last.op = "upload" /\ last.status = 200) =>
          /\ last.sid \in DOMAIN active_sessions
          /\ disk[last.sid].state = "complete"
          /\ Len(disk[last.sid].passages) >= 1
    /\ \A s \in RequestIds : disk[s].state = "complete" => disk[s].passages # <<>>
    /\ (last.op = "ask" /\ last.known /\ last.failed \notin {"load", "embedding"}) =>
          Len(last.docs) >= 1

\* C19 witness: with a session registered whose index has one passage, an
\* upload of a document without text was refused.
C19_Witness ==
    /\ \E s \in DOMAIN active_sessions :
          disk[s].state = "complete" /\ Len(disk[s].passages) = 1
    /\ last.op = "upload" /\ last.failed = "notext"

\* C20: every upload, question, session-info and delete request ends with a
\* result or with an HTTPException the handler raised; no other exception
\* leaves a handler, also when the answer model's JSON has a field of the
\* wrong type and the response model refuses it.
C20_NoExceptionEscapesAHandler ==
    last.op \in {"upload", "ask", "info", "delete"} => ~last.unhandled

\* Position of a passage in the index of the session asked last.
PositionOf(p) ==
    CHOOSE i \in 1..Len(disk[last.sid].passages) : disk[last.sid].passages[i] = p

C23_InvalidUploadIs400 ==
    (variant = "api" /\ last.op = "upload" /\ last.failed \in {"filetype", "notext"}) =>
        /\ last.status = 400
        /\ last.sid \notin DOMAIN active_sessions

\* C24: in simple_api.py no session is registered for a PDF whose text
\* extraction raised an error, and no saved index was built from it.
C24_UnreadablePdfIsNotRegistered ==
    variant = "simple" =>
        /\ \A s \in DOMAIN active_sessions : UploadedDocument(s).readable
        /\ (last.op = "upload" /\ last.status = 200) =>
              (CHOOSE d \in Documents : d.filename = last.info.filename).readable

\* C25: the temporary copy of an uploaded file is gone when its upload
\* request has finished, however it finished: a temporary file exists only
\* for an upload that is still being handled.
C25_TempFileRemovedOnEveryPath ==
    /\ tempfiles \subseteq DOMAIN uploading
    /\ (last.op = "upload" /\ last.sid \in created /\ last.sid \notin DOMAIN uploading) =>
          last.sid \notin tempfiles

\* C22: every chunker configuration has 0 <= overlap < size, and the chunks
\* made of a non-empty text are each at most `size` characters long (in
\* enhanced_api.py counted with the source-tag prefix) and together hold
\* every character of the text: the first starts at the first character,
\* the last ends at the last, none starts after the end of the one before.
C22_ChunksWithinSizeAndCoverText ==
    /\ \A c \in ChunkerConfigs : 0 <= chunk_overlap(c) /\ chunk_overlap(c) < chunk_size(c)
    /\ chunk_out # <<>> =>
          LET n == SplitLength(chunk_config, chunk_text)
              k == Len(chunk_out)
          IN  /\ \A i \in 1..k :
                    /\ chunk_out[i].from <= chunk_out[i].to
                    /\ chunk_out[i].to - chunk_out[i].from + 1 <= chunk_size(chunk_config)
              /\ chunk_out[1].from = 1
              /\ chunk_out[k].to = n
              /\ \A i \in 1..(k - 1) :
                    /\ chunk_out[i + 1].from <= chunk_out[i].to + 1
                    /\ chunk_out[i + 1].to > chunk_out[i].to

\* C22 witness: in enhanced_api.py a block shorter than the chunk size was
\* cut in two because of the prefix.
C22_Witness ==
    /\ chunk_config = "enhanced"
    /\ chunk_text < chunk_size("enhanced")
    /\ Len(chunk_out) = 2

\* C26: in app.py a question of a browser session whose pdf_processed is
\* set is answered from a faiss_index that exists and was built from the
\* upload that browser session processed last.
C26_QuestionUsesOwnIndex ==
    (app_last.browser \in Browsers /\ app_last.processed) =>
        /\ app_last.outcome = "answered"
        /\ app_last.index =
              FaissIndex(app_last.browser, processed_upload[app_last.browser])

\* C27: in enhanced_app.py every entry of chat_history was answered
\* against the session_id the browser session holds now.
C27_HistoryBelongsToCurrentSession ==
    \A i \in 1..Len(chat_history) : chat_history[i].session = session_id

====
